---- MODULE Spec2Model ----
(***************************************************************************)
(* A model of the metadata resolution engine of                            *)
(* src/backend/spotify_metadata.py: identifier extraction, the two token   *)
(* providers with their process-wide cache, the authorised GET with its    *)
(* single retry, the structured fetch with the run-scoped artist-genre     *)
(* cache, the page-scrape fallback and the batch loop of fill_rows.        *)
(*                                                                         *)
(* Python strings are modelled as sequences of one-character strings, so   *)
(* that strip, split, lower-casing, joining and the regular expression are *)
(* computed character by character.  The empty string is << >>.            *)
(***************************************************************************)
EXTENDS Naturals, Sequences, FiniteSets, TLC

(***************************************************************************)
(* Characters and string primitives                                        *)
(***************************************************************************)
LowerChars == {"a","b","c","d","e","f","g","h","i","j","k","l","m",
               "n","o","p","q","r","s","t","u","v","w","x","y","z"}

UpperChars == {"A","B","C","D","E","F","G","H","I","J","K","L","M",
               "N","O","P","Q","R","S","T","U","V","W","X","Y","Z"}

DigitChars == {"0","1","2","3","4","5","6","7","8","9"}

\* [A-Za-z0-9]
AlnumChars == LowerChars \cup UpperChars \cup DigitChars

\* the characters str.strip() removes that occur in the modelled inputs
Whitespace == {" "}

\* Python's None, as a value no string is equal to
None == <<"None">>

\* truthiness of an optional string: None and "" are falsy
Truthy(s) == s # None /\ s # <<>>

\* `value or ""`
OrEmpty(s) == IF Truthy(s) THEN s ELSE <<>>

RECURSIVE LStrip(_)
LStrip(s) ==
  IF s = <<>> THEN <<>>
  ELSE IF Head(s) \in Whitespace THEN LStrip(Tail(s)) ELSE s

RECURSIVE RStrip(_)
RStrip(s) ==
  IF s = <<>> THEN <<>>
  ELSE IF s[Len(s)] \in Whitespace THEN RStrip(SubSeq(s, 1, Len(s) - 1)) ELSE s

\* str.strip()
Strip(s) == RStrip(LStrip(s))

\* s[i-1:].startswith(p), for a 1-based position i
StartsWithAt(s, p, i) ==
  /\ i >= 1
  /\ i + Len(p) - 1 <= Len(s)
  /\ \A k \in 1..Len(p) : s[i + k - 1] = p[k]

\* s.startswith(p)
StartsWith(s, p) == StartsWithAt(s, p, 1)

\* the 1-based position of the first c in s, 0 when there is none (str.find)
Find(s, c) ==
  IF \E i \in 1..Len(s) : s[i] = c
  THEN CHOOSE i \in 1..Len(s) : s[i] = c /\ \A j \in 1..(i - 1) : s[j] # c
  ELSE 0

\* s[i-1:], for a 1-based position i
From(s, i) == SubSeq(s, i, Len(s))

\* s.split(c): the segments between the occurrences of c, empty ones kept
RECURSIVE Split(_, _)
Split(s, c) ==
  LET i == Find(s, c)
  IN  IF i = 0 THEN <<s>>
      ELSE <<SubSeq(s, 1, i - 1)>> \o Split(From(s, i + 1), c)

\* [x for x in xs if x]
RECURSIVE NonEmpty(_)
NonEmpty(xs) ==
  IF xs = <<>> THEN <<>>
  ELSE IF Head(xs) # <<>> THEN <<Head(xs)>> \o NonEmpty(Tail(xs))
       ELSE NonEmpty(Tail(xs))

\* list.index(x) as a 1-based position, 0 when x is not in xs
IndexIn(xs, x) ==
  IF \E i \in 1..Len(xs) : xs[i] = x
  THEN CHOOSE i \in 1..Len(xs) : xs[i] = x /\ \A j \in 1..(i - 1) : xs[j] # x
  ELSE 0

(***************************************************************************)
(* Literals of the source                                                  *)
(***************************************************************************)
UriPrefix == <<"s","p","o","t","i","f","y",":","t","r","a","c","k",":">>

HostPart == <<"o","p","e","n",".","s","p","o","t","i","f","y",".","c","o","m","/">>

IntlPart == <<"i","n","t","l","-">>

EmbedPart == <<"e","m","b","e","d","/">>

TrackPart == <<"t","r","a","c","k","/">>

TrackWord == <<"t","r","a","c","k">>

(***************************************************************************)
(* track_id_from_url                                                       *)
(***************************************************************************)
\* (?:intl-[a-z]{2}/)? at position j: the position after it when it matches
AfterIntl(s, j) ==
  IF /\ StartsWithAt(s, IntlPart, j)
     /\ j + 7 <= Len(s)
     /\ s[j + 5] \in LowerChars
     /\ s[j + 6] \in LowerChars
     /\ s[j + 7] = "/"
  THEN j + 8 ELSE j

\* (?:embed/)? at position j
AfterEmbed(s, j) == IF StartsWithAt(s, EmbedPart, j) THEN j + 6 ELSE j

\* The position of the captured group when the pattern matches at position
\* i, 0 otherwise.  An optional part that is present cannot be skipped by
\* backtracking: what follows would have to start with "embed/" or "track/".
GroupStart(s, i) ==
  IF ~StartsWithAt(s, HostPart, i) THEN 0
  ELSE LET j == AfterEmbed(s, AfterIntl(s, i + Len(HostPart)))
       IN  IF /\ StartsWithAt(s, TrackPart, j)
              /\ j + 6 <= Len(s)
              /\ s[j + 6] \in AlnumChars
           THEN j + 6 ELSE 0

\* the longest run of [A-Za-z0-9] at the head of s (the greedy group)
RECURSIVE AlnumRun(_)
AlnumRun(s) ==
  IF s = <<>> \/ Head(s) \notin AlnumChars THEN <<>>
  ELSE <<Head(s)>> \o AlnumRun(Tail(s))

\* re.search(...): group(1) of the leftmost match, None when nothing matches
DirectMatch(s) ==
  IF \E i \in 1..Len(s) : GroupStart(s, i) # 0
  THEN LET i == CHOOSE k \in 1..Len(s) :
                  GroupStart(s, k) # 0 /\ \A m \in 1..(k - 1) : GroupStart(s, m) = 0
       IN  AlnumRun(From(s, GroupStart(s, i)))
  ELSE None

\* characters of a URL scheme (urllib.parse.scheme_chars)
SchemeChars == AlnumChars \cup {"+", "-", "."}

\* urlsplit: what is left after "<scheme>:" is removed
AfterScheme(s) ==
  LET i == Find(s, ":")
  IN  IF /\ i > 1
         /\ s[1] \in LowerChars \cup UpperChars
         /\ \A k \in 1..(i - 1) : s[k] \in SchemeChars
      THEN From(s, i + 1) ELSE s

\* the first position of s holding a character of cs, Len(s)+1 when none
FirstOf(s, cs) ==
  IF \E i \in 1..Len(s) : s[i] \in cs
  THEN CHOOSE i \in 1..Len(s) : s[i] \in cs /\ \A j \in 1..(i - 1) : s[j] \notin cs
  ELSE Len(s) + 1

\* urlsplit: what is left after "//<netloc>" is removed
AfterNetloc(s) ==
  IF StartsWith(s, <<"/", "/">>)
  THEN LET rest == From(s, 3) IN From(rest, FirstOf(rest, {"/", "?", "#"}))
  ELSE s

\* urlparse(s).path: scheme, netloc, fragment and query removed
UrlPath(s) ==
  LET rest == AfterNetloc(AfterScheme(s))
  IN  SubSeq(rest, 1, FirstOf(rest, {"?", "#"}) - 1)

track_id_from_url(url) ==
  IF ~Truthy(url) THEN None
  ELSE LET cleaned == Strip(url)
       IN  IF cleaned = <<>> THEN None
           ELSE IF StartsWith(cleaned, UriPrefix)
           THEN LET parts == Split(cleaned, ":") IN parts[Len(parts)]
           ELSE IF DirectMatch(cleaned) # None THEN DirectMatch(cleaned)
           ELSE LET path_parts == NonEmpty(Split(UrlPath(cleaned), "/"))
                    track_index == IndexIn(path_parts, TrackWord)
                IN  IF track_index # 0 /\ track_index + 1 <= Len(path_parts)
                    THEN path_parts[track_index + 1]
                    ELSE None

(***************************************************************************)
(* Bounds of the model                                                     *)
(***************************************************************************)
\* URLs handed to fill_rows over all its invocations together
MaxUrls == 2

\* how often the clock advances
MaxTicks == 1

\* length of the free tail of an input string of track_id_from_url
MaxTail == 2

\* whole hours of the durations handed to _format_duration
MaxHours == 2

\* length of the lists handed to _dedupe_strings
MaxList == 3

\* threads running fill_rows at the same time in one process
MaxThreads == 2

(***************************************************************************)
(* Program constants                                                       *)
(***************************************************************************)
\* a cached token is reused only until 30 seconds before its expiry
ExpiryMargin == 30

\* the lifetime assumed when the token response carries none
DefaultLifetime == 300

\* DEFAULT_DELAY_SECONDS = 0.2, in milliseconds
DEFAULT_DELAY_MS == 200

\* range(2) in _spotify_api_get
Attempts == 2

(***************************************************************************)
(* Values of the environment                                               *)
(***************************************************************************)
\* seconds by which the clock may advance in one step
TickSteps == {100}

Song == <<"S","o","n","g">>

Band == <<"B","a","n","d">>

BandLower == <<"b","a","n","d">>

Alb == <<"A","l","b">>

Year == <<"2","0","2","0">>

Pop == <<"P","o","p">>

PopLower == <<"p","o","p">>

Tune == <<"T","u","n","e">>

Act == <<"A","c","t">>

ArtistA == <<"a","1">>

ArtistB == <<"b","2">>

TrackA == <<"a","b","1">>

\* " https://open.spotify.com/track/ab1 ", with the padding fill_rows trims
TrackUrl ==
  <<" ","h","t","t","p","s",":","/","/">> \o HostPart \o TrackPart \o TrackA \o <<" ">>

BlankUrl == <<" ">>

\* a non-blank input no identifier can be extracted from
NoIdUrl == <<"x","/","y">>

UrlPool == {BlankUrl, NoIdUrl, TrackUrl}

\* the input lists of fill_rows, up to n entries
UrlLists(n) == UNION {[1..k -> UrlPool] : k \in 0..n}

\* _blank_metadata()
BlankMetadata ==
  [artist |-> <<>>, track_name |-> <<>>, genre |-> <<>>, album |-> <<>>,
   release_date |-> <<>>, duration |-> <<>>, explicit |-> <<>>,
   popularity |-> <<>>]

MetadataKeys ==
  {"artist", "track_name", "genre", "album", "release_date", "duration",
   "explicit", "popularity"}

(***************************************************************************)
(* Pure helpers of the structured fetch                                    *)
(***************************************************************************)
\* str.lower() of one character
LowerChar(c) ==
  CASE c = "A" -> "a" [] c = "B" -> "b" [] c = "C" -> "c" [] c = "D" -> "d"
    [] c = "E" -> "e" [] c = "F" -> "f" [] c = "G" -> "g" [] c = "H" -> "h"
    [] c = "I" -> "i" [] c = "J" -> "j" [] c = "K" -> "k" [] c = "L" -> "l"
    [] c = "M" -> "m" [] c = "N" -> "n" [] c = "O" -> "o" [] c = "P" -> "p"
    [] c = "Q" -> "q" [] c = "R" -> "r" [] c = "S" -> "s" [] c = "T" -> "t"
    [] c = "U" -> "u" [] c = "V" -> "v" [] c = "W" -> "w" [] c = "X" -> "x"
    [] c = "Y" -> "y" [] c = "Z" -> "z" [] OTHER -> c

\* Lower that leaves the case as it is
LowerKeepsCase(s) == s

\* str.lower()
Lower(s) == [i \in 1..Len(s) |-> LowerChar(s[i])]

\* the loop of _dedupe_strings: deduped so far, keys seen so far, values left
RECURSIVE DedupeLoop(_, _, _)
DedupeLoop(deduped, seen, values) ==
  IF values = <<>> THEN deduped
  ELSE LET cleaned == Strip(OrEmpty(Head(values)))
           key == Lower(cleaned)
       IN  IF cleaned = <<>> \/ key \in seen
           THEN DedupeLoop(deduped, seen, Tail(values))
           ELSE DedupeLoop(Append(deduped, cleaned), seen \cup {key}, Tail(values))

_dedupe_strings(values) == DedupeLoop(<<>>, {}, values)

\* ", ".join(xs)
RECURSIVE JoinComma(_)
JoinComma(xs) ==
  IF xs = <<>> THEN <<>>
  ELSE IF Len(xs) = 1 THEN Head(xs)
  ELSE Head(xs) \o <<",", " ">> \o JoinComma(Tail(xs))

DigitOf(d) ==
  CASE d = 0 -> "0" [] d = 1 -> "1" [] d = 2 -> "2" [] d = 3 -> "3"
    [] d = 4 -> "4" [] d = 5 -> "5" [] d = 6 -> "6" [] d = 7 -> "7"
    [] d = 8 -> "8" [] d = 9 -> "9"

\* str(n) of a natural number
RECURSIVE Decimal(_)
Decimal(n) ==
  IF n < 10 THEN <<DigitOf(n)>> ELSE Decimal(n \div 10) \o <<DigitOf(n % 10)>>

\* TwoDigits without the padding
TwoDigitsUnpadded(n) == Decimal(n)

\* f"{n:02d}"
TwoDigits(n) == IF n < 10 THEN <<"0">> \o Decimal(n) ELSE Decimal(n)

\* A JSON number or its absence: [present |-> FALSE] stands for a missing or
\* non-integer value, [present |-> TRUE, neg |-> b, abs |-> n] for the integer
\* n, or -n when neg.
NoNumber == [present |-> FALSE, neg |-> FALSE, abs |-> 0]

Num(n) == [present |-> TRUE, neg |-> FALSE, abs |-> n]

_format_duration(duration_ms) ==
  IF ~duration_ms.present \/ duration_ms.neg \/ duration_ms.abs = 0 THEN <<>>
  ELSE LET total_seconds == duration_ms.abs \div 1000
           seconds == total_seconds % 60
           minutes == (total_seconds \div 60) % 60
           hours == (total_seconds \div 60) \div 60
       IN  IF hours > 0
           THEN Decimal(hours) \o <<":">> \o TwoDigits(minutes) \o <<":">>
                \o TwoDigits(seconds)
           ELSE Decimal(minutes) \o <<":">> \o TwoDigits(seconds)

(***************************************************************************)
(* Responses of the network                                                *)
(***************************************************************************)
\* the token the accounts endpoint issues, and the web player's
TokA == <<"t","A">>

TokB == <<"t","B">>

\* another token of the web player: every response issues a token of its own
TokC == <<"t","C">>

\* no token response at hand
NoTokResp ==
  [status |-> "none", access_token |-> None, expires_in |-> NoNumber,
   expiry_ms |-> NoNumber]

\* What POST accounts.spotify.com/api/token can answer: a transport failure,
\* a non-2xx status, or a JSON body whose access_token is missing, blank or a
\* token and whose expires_in is missing or a number of seconds.
ClientCredentialsResponses ==
  {[status |-> st, access_token |-> None, expires_in |-> NoNumber,
    expiry_ms |-> NoNumber] : st \in {"transport", "http_error", "ok"}}
  \cup
  {[status |-> "ok", access_token |-> t, expires_in |-> e, expiry_ms |-> NoNumber] :
     t \in {TokA}, e \in {NoNumber, Num(130)}}
  \cup
  {[status |-> "ok", access_token |-> <<" ">>, expires_in |-> Num(130),
    expiry_ms |-> NoNumber]}

\* What GET open.spotify.com/get_access_token can answer at time t: as above,
\* with accessTokenExpirationTimestampMs missing or an absolute time in ms.
WebPlayerResponses(t) ==
  {[status |-> st, access_token |-> None, expires_in |-> NoNumber,
    expiry_ms |-> NoNumber] : st \in {"transport", "http_error", "ok"}}
  \cup
  {[status |-> "ok", access_token |-> tk, expires_in |-> NoNumber, expiry_ms |-> e] :
     tk \in {TokB}, e \in {NoNumber, Num((t + 130) * 1000)}}

\* one entry of a track's "artists" list
ArtistEntry(name, id) == [is_dict |-> TRUE, name |-> name, id |-> id]

\* an entry of the list that is no JSON object
NotADict == [is_dict |-> FALSE, name |-> None, id |-> None]

\* {} : what _spotify_api_get returns for a body that is no JSON object
EmptyTrack ==
  [name |-> None, artists_ok |-> TRUE, artists |-> <<>>, album_name |-> None,
   release_date |-> None, explicit |-> "null", popularity |-> NoNumber,
   duration_ms |-> NoNumber]

\* a complete track of one artist
FullTrack ==
  [name |-> Song, artists_ok |-> TRUE, artists |-> <<ArtistEntry(Band, ArtistA)>>,
   album_name |-> Alb, release_date |-> Year, explicit |-> "true",
   popularity |-> Num(42), duration_ms |-> Num(185000)]

\* a track without a name and without artists, the album data present
AlbumOnlyTrack ==
  [name |-> None, artists_ok |-> TRUE, artists |-> <<>>, album_name |-> Alb,
   release_date |-> Year, explicit |-> "false", popularity |-> Num(7),
   duration_ms |-> Num(59999)]

\* a track whose artists carry an id and no name, one entry being no object
NamelessArtistTrack ==
  [name |-> None, artists_ok |-> TRUE,
   artists |-> <<NotADict, ArtistEntry(None, ArtistA), ArtistEntry(<<" ">>, None)>>,
   album_name |-> None, release_date |-> None, explicit |-> "null",
   popularity |-> NoNumber, duration_ms |-> NoNumber]

\* a track of two artists that lists the first one twice, in two spellings
TwiceArtistTrack ==
  [name |-> Song, artists_ok |-> TRUE,
   artists |-> <<ArtistEntry(Band, ArtistA), ArtistEntry(Act, ArtistB),
                 ArtistEntry(BandLower, ArtistA)>>,
   album_name |-> None, release_date |-> None, explicit |-> "null",
   popularity |-> NoNumber, duration_ms |-> Num(3600000)]

\* a body whose "artists" cannot be iterated (a number)
MalformedTrack ==
  [name |-> Song, artists_ok |-> FALSE, artists |-> <<>>, album_name |-> Alb,
   release_date |-> Year, explicit |-> "true", popularity |-> Num(42),
   duration_ms |-> Num(185000)]

TrackPayloads ==
  {EmptyTrack, FullTrack, AlbumOnlyTrack, NamelessArtistTrack, TwiceArtistTrack,
   MalformedTrack}

\* the body of GET /artists/<id>: its "genres", [] when missing
ArtistPayloads == {[genres |-> <<>>], [genres |-> <<Pop, PopLower>>]}

\* {} for the artist resource
EmptyArtist == [genres |-> <<>>]

\* no resource response at hand
NoGetResp == [auth |-> <<>>, status |-> "none", body |-> EmptyArtist]

\* What GET api.spotify.com/v1/... can answer to a request carrying the
\* bearer token tk: a transport failure, 401, another non-2xx, or 200 and a body.
ResourceResponses(tk, bodies) ==
  {[auth |-> tk, status |-> st, body |-> EmptyArtist] :
     st \in {"transport", "401", "500"}}
  \cup {[auth |-> tk, status |-> "200", body |-> b] : b \in bodies}

\* no embed response at hand
NoEmbedResp == [status |-> "none", track_name |-> None, artists |-> None]

\* What GET open.spotify.com/embed/track/<id> can answer: a failure, or a
\* page, given by what _extract_track_artist_from_html reads from it.
EmbedResponses ==
  {[status |-> st, track_name |-> None, artists |-> None] :
     st \in {"transport", "http_error", "200"}}
  \cup {[status |-> "200", track_name |-> Tune, artists |-> a] : a \in {None, Act}}

(***************************************************************************)
(* State                                                                   *)
(***************************************************************************)
VARIABLES
  tokenCache,          \* _TOKEN_CACHE: per provider, token and expires_at
  clock,               \* time.time(), in seconds
  configured,          \* SPOTIFY_CLIENT_ID and SPOTIFY_CLIENT_SECRET are both set
  used,                \* URLs handed to fill_rows so far
  pc,                  \* where the running fill_rows call stands; "idle": none runs
  urls,                \* fill_rows: its argument
  index,               \* fill_rows: entries of urls dealt with
  output_rows,         \* fill_rows: output_rows (its result once pc = "idle")
  artist_genre_cache,  \* fill_rows: the cache handed to fetch_track_metadata
  sleeps,              \* the positions (1-based) after which fill_rows slept
  spotify_url,         \* fetch_track_metadata: its argument
  metadata,            \* fetch_track_metadata: metadata
  track_id,            \* fetch_track_metadata: track_id
  track_payload,       \* fetch_track_metadata: track_payload
  ai,                  \* fetch_track_metadata: position in artists_data
  artists,             \* fetch_track_metadata: artists
  genres,              \* fetch_track_metadata: genres
  structured,          \* how the structured attempt ended: none, raised, returned
  target,              \* _spotify_api_get: the resource asked for (track, artist)
  attempt,             \* _spotify_api_get: attempt
  response,            \* _spotify_api_get: status of response, "None" when unset
  last_error,          \* _spotify_api_get: last_error
  errors,              \* _get_spotify_access_token: errors
  now,                 \* the token provider's reading of the clock
  token,               \* the bearer token the running attempt obtained
  tok_resp,            \* the token endpoint's response being handled
  get_resp,            \* the resource response being handled
  embed_resp,          \* the embed page's response being handled
  reqs,                \* requests sent for the current URL, per endpoint
  xin,                 \* the argument of the pure function under test
  xout,                \* its result
  xdone,               \* the function has been applied to xin
  threads,             \* per thread: where its _get_web_player_token call stands
  issued               \* the (token, expires_at) pairs the web-player responses gave

procVars == <<tokenCache, clock, configured, used>>

runVars == <<urls, index, output_rows, sleeps>>

fetchVars == <<spotify_url, metadata, track_id, track_payload, ai, artists, genres,
               structured, artist_genre_cache>>

apiVars == <<target, attempt, response, last_error, errors, token>>

wireVars == <<now, tok_resp, get_resp, embed_resp, reqs>>

extractVars == <<xin, xout, xdone>>

threadVars == <<threads, issued>>

vars == <<procVars, pc, runVars, fetchVars, apiVars, wireVars, extractVars, threadVars>>

NoError == [raised |-> FALSE, reasons |-> <<>>]

NoRequests == [accounts |-> 0, web_token |-> 0, track |-> 0, artist |-> 0, embed |-> 0]

EmptyCache == [id \in {} |-> <<>>]

\* the input strings of track_id_from_url under test: a head, then up to
\* MaxTail free characters
InputHeads ==
  {<<>>, <<" ">>, UriPrefix,
   <<"h","t","t","p","s",":","/","/">> \o HostPart \o TrackPart,
   HostPart \o IntlPart \o <<"d","e","/">> \o TrackPart,
   <<"/","/">> \o HostPart \o EmbedPart \o TrackPart,
   <<"h",":","/","/","x","/">> \o TrackPart,
   <<"x","/">> \o TrackPart}

TailChars == {"a", "Z", "7", "-", "?", ":", "/", " "}

Tails(n) == UNION {[1..k -> TailChars] : k \in 0..n}

Inputs == {h \o t : h \in InputHeads, t \in Tails(MaxTail)}

Threads == 1..MaxThreads

\* a thread that has not called _get_web_player_token yet
IdleThread ==
  [pc |-> "start", force_refresh |-> FALSE, now |-> 0, response |-> NoTokResp,
   token |-> <<>>, expires_at |-> 0]

\* nothing runs yet: the module has been imported, the token cache is empty
Quiescent ==
  /\ tokenCache = [client_credentials |-> [token |-> <<>>, expires_at |-> 0],
                   web_player |-> [token |-> <<>>, expires_at |-> 0]]
  /\ clock = 0
  /\ used = 0
  /\ pc = "idle"
  /\ urls = <<>>
  /\ index = 0
  /\ output_rows = <<>>
  /\ artist_genre_cache = EmptyCache
  /\ sleeps = <<>>
  /\ spotify_url = <<>>
  /\ metadata = BlankMetadata
  /\ track_id = None
  /\ track_payload = EmptyTrack
  /\ ai = 0
  /\ artists = <<>>
  /\ genres = <<>>
  /\ structured = "none"
  /\ target = "none"
  /\ attempt = 0
  /\ response = "None"
  /\ last_error = NoError
  /\ errors = <<>>
  /\ now = 0
  /\ token = <<>>
  /\ tok_resp = NoTokResp
  /\ get_resp = NoGetResp
  /\ embed_resp = NoEmbedResp
  /\ reqs = NoRequests
  /\ threads = [t \in Threads |-> IdleThread]
  /\ issued = {}

Init ==
  /\ Quiescent
  /\ configured \in BOOLEAN
  /\ xin = <<>>
  /\ xout = None
  /\ xdone = FALSE

(***************************************************************************)
(* Decisions of the code, as operators                                     *)
(***************************************************************************)
\* RowUrl without the trimming
RowUrlUntrimmed(value) == OrEmpty(value)

\* fill_rows: url = str(value or "").strip()
RowUrl(value) == Strip(OrEmpty(value))

\* HasTrackId with the early return left out
HasTrackIdAlways(id) == TRUE

\* fetch_track_metadata: `if not track_id: return metadata` is not taken
HasTrackId(id) == Truthy(id)

\* ForceRefresh that forces on every attempt
ForceRefreshAlways(a) == TRUE

\* force_refresh=(attempt == 1)
ForceRefresh(a) == a = 1

\* CacheValid without the 30 second margin
CacheValidNoMargin(entry, force_refresh, t) ==
  /\ ~force_refresh
  /\ Truthy(entry.token)
  /\ t < entry.expires_at

\* the providers' cache test:
\* not force_refresh and cache["token"] and now < (cache["expires_at"] - 30)
CacheValid(entry, force_refresh, t) ==
  /\ ~force_refresh
  /\ Truthy(entry.token)
  /\ t + ExpiryMargin < entry.expires_at

\* SecretsMissing with the configuration test left out
SecretsMissingIgnored(conf) == FALSE

\* _get_client_credentials_token: `if not client_id or not client_secret`
SecretsMissing(conf) == ~conf

\* TokenOf without the trimming
TokenOfUntrimmed(resp) == OrEmpty(resp.access_token)

\* the token read from a token response: str(payload.get(...) or "").strip()
TokenOf(resp) == Strip(OrEmpty(resp.access_token))

\* TokenMissing with the test for an empty token left out
TokenMissingIgnored(tk) == FALSE

\* `if not token: raise ValueError(...)`
TokenMissing(tk) == tk = <<>>

\* _get_client_credentials_token: expires_at from expires_in
ClientExpiry(resp, t) ==
  IF resp.expires_in.present THEN t + resp.expires_in.abs ELSE t + DefaultLifetime

\* _get_web_player_token: expires_at from accessTokenExpirationTimestampMs
WebExpiry(resp, t) ==
  IF resp.expiry_ms.present THEN resp.expiry_ms.abs \div 1000 ELSE t + DefaultLifetime

\* why a provider failed on the response resp
FailureReason(resp) == IF resp.status = "ok" THEN "token_missing" ELSE resp.status

\* lines 347-370: the metadata built from the track payload
StructuredMetadata(payload, artist_names, genre_names) ==
  [track_name |-> Strip(OrEmpty(payload.name)),
   artist |-> JoinComma(_dedupe_strings(artist_names)),
   genre |-> JoinComma(_dedupe_strings(genre_names)),
   album |-> Strip(OrEmpty(payload.album_name)),
   release_date |-> Strip(OrEmpty(payload.release_date)),
   duration |-> _format_duration(payload.duration_ms),
   explicit |-> IF payload.explicit = "true" THEN <<"Y","e","s">>
                ELSE IF payload.explicit = "false" THEN <<"N","o">> ELSE <<>>,
   popularity |-> IF payload.popularity.present
                  THEN Decimal(payload.popularity.abs) ELSE <<>>]

\* StructuredHit looking at the track name only
StructuredHitNameOnly(md) == md.track_name # <<>>

\* `if metadata["track_name"] or metadata["artist"] or metadata["genre"]`
StructuredHit(md) == md.track_name # <<>> \/ md.artist # <<>> \/ md.genre # <<>>

\* FallbackMerge that blanks every field it does not take from the fallback
FallbackMergeBlanking(md, fallback_track, fallback_artist) ==
  [BlankMetadata EXCEPT !.track_name = OrEmpty(fallback_track),
                        !.artist = OrEmpty(fallback_artist)]

\* lines 383-384: the fallback's values written into the metadata
FallbackMerge(md, fallback_track, fallback_artist) ==
  [md EXCEPT !.track_name = OrEmpty(fallback_track),
             !.artist = OrEmpty(fallback_artist)]

\* KeptAfterFallbackError that drops what the structured attempt had filled in
KeptAfterFallbackErrorBlank(md) == BlankMetadata

\* the fallback raised before lines 383-384: metadata is as it was
KeptAfterFallbackError(md) == md

\* AfterFallbackError without the handler: the error leaves fill_rows
AfterFallbackErrorPropagates == "raised"

\* `except Exception: pass` around the fallback: the row is emitted
AfterFallbackError == "row"

\* `if delay_seconds > 0 and index < total`, index counting from 1
SleepsAfter(delay_ms, position, total) == delay_ms > 0 /\ position < total

\* the artist id of the entry the artist loop stands at
CurrentArtistId == Strip(OrEmpty(track_payload.artists[ai].id))

\* ArtistCached that never finds an entry
ArtistCachedNever(cache, id) == FALSE

\* `artist_id not in artist_genre_cache`, negated
ArtistCached(cache, id) == id \in DOMAIN cache

\* artist_genre_cache[id] = value
CachePut(cache, id, value) ==
  [k \in DOMAIN cache \cup {id} |-> IF k = id THEN value ELSE cache[k]]

(***************************************************************************)
(* _spotify_api_get: how a call ends                                       *)
(***************************************************************************)
ApiFrameReset ==
  /\ target' = "none"
  /\ attempt' = 0
  /\ response' = "None"
  /\ last_error' = NoError
  /\ errors' = <<>>
  /\ token' = <<>>

\* The call raises.  For the track this is caught by the outer `except
\* Exception: pass` and the fallback follows; for an artist it is caught by
\* the inner handler, which caches [] for the artist.
ApiRaise ==
  /\ IF target = "track"
     THEN /\ pc' = "embed"
          /\ structured' = "raised"
          /\ UNCHANGED <<ai, genres, artist_genre_cache>>
     ELSE /\ pc' = "artists"
          /\ artist_genre_cache' = CachePut(artist_genre_cache, CurrentArtistId, <<>>)
          /\ genres' = genres \o <<>>
          /\ ai' = ai + 1
          /\ UNCHANGED structured
  /\ UNCHANGED <<metadata, track_payload, artists>>
  /\ ApiFrameReset

\* The call returns data: the track payload, or an artist's payload whose
\* deduplicated genres are cached and added to the track's genres.
ApiReturn(data) ==
  /\ pc' = "artists"
  /\ IF target = "track"
     THEN /\ track_payload' = data
          /\ ai' = 1
          /\ artists' = <<>>
          /\ genres' = <<>>
          /\ UNCHANGED artist_genre_cache
     ELSE /\ artist_genre_cache' =
               CachePut(artist_genre_cache, CurrentArtistId, _dedupe_strings(data.genres))
          /\ genres' = genres \o _dedupe_strings(data.genres)
          /\ ai' = ai + 1
          /\ UNCHANGED <<track_payload, artists>>
  /\ UNCHANGED <<metadata, structured>>
  /\ ApiFrameReset

\* `continue` in the attempt loop, response and last_error being resp and err:
\* the next attempt, or after the last one the lines below the loop.
Continue(resp, err) ==
  IF attempt + 1 < Attempts
  THEN /\ pc' = "cc"
       /\ attempt' = attempt + 1
       /\ response' = resp
       /\ last_error' = err
       /\ errors' = <<>>
       /\ token' = <<>>
       /\ UNCHANGED <<target, metadata, track_payload, ai, artists, genres,
                      structured, artist_genre_cache>>
  ELSE IF resp # "None" \/ err.raised
       THEN ApiRaise
       ELSE ApiReturn(IF target = "track" THEN EmptyTrack ELSE EmptyArtist)

\* _get_spotify_access_token: both providers failed, with reasons errs; the
\* RuntimeError carries them and _spotify_api_get keeps it as last_error
TokenFailure(errs) == Continue(response, [raised |-> TRUE, reasons |-> errs])

\* fetch_track_metadata calls _spotify_api_get for resource t
ApiCall(t) ==
  /\ pc' = "cc"
  /\ target' = t
  /\ attempt' = 0
  /\ response' = "None"
  /\ last_error' = NoError
  /\ errors' = <<>>
  /\ token' = <<>>

(***************************************************************************)
(* fill_rows                                                               *)
(***************************************************************************)
\* {"url": url, **metadata}
Row(url, md) ==
  [url |-> url, artist |-> md.artist, track_name |-> md.track_name,
   genre |-> md.genre, album |-> md.album, release_date |-> md.release_date,
   duration |-> md.duration, explicit |-> md.explicit,
   popularity |-> md.popularity]

\* fill_rows(us) is called: a new session, an empty artist-genre cache
fill_rows_call(us) ==
  /\ pc = "idle"
  /\ pc' = "loop"
  /\ urls' = us
  /\ index' = 0
  /\ output_rows' = <<>>
  /\ sleeps' = <<>>
  /\ artist_genre_cache' = EmptyCache
  /\ used' = used + Len(us)
  /\ UNCHANGED <<tokenCache, clock, configured, spotify_url, metadata, track_id,
                 track_payload, ai, artists, genres, structured, apiVars, wireVars,
                 extractVars, threadVars>>

\* the loop is over: return output_rows
fill_rows_return ==
  /\ pc = "loop"
  /\ index = Len(urls)
  /\ pc' = "idle"
  /\ UNCHANGED <<procVars, runVars, fetchVars, apiVars, wireVars, extractVars, threadVars>>

\* a blank entry: an all-blank row, and `continue`
fill_rows_blank ==
  /\ pc = "loop"
  /\ index < Len(urls)
  /\ RowUrl(urls[index + 1]) = <<>>
  /\ output_rows' = Append(output_rows, Row(<<>>, BlankMetadata))
  /\ index' = index + 1
  /\ UNCHANGED <<pc, procVars, urls, sleeps, fetchVars, apiVars, wireVars, extractVars, threadVars>>

\* a non-blank entry: fetch_track_metadata is called with the trimmed url
fill_rows_resolve ==
  /\ pc = "loop"
  /\ index < Len(urls)
  /\ RowUrl(urls[index + 1]) # <<>>
  /\ pc' = "fetch"
  /\ spotify_url' = RowUrl(urls[index + 1])
  /\ UNCHANGED <<procVars, runVars, metadata, track_id, track_payload, ai, artists,
                 genres, structured, artist_genre_cache, apiVars, wireVars,
                 extractVars, threadVars>>

\* fetch_track_metadata has returned: the row is appended, and fill_rows
\* sleeps unless this was the last entry
fill_rows_append ==
  /\ pc = "row"
  /\ pc' = "loop"
  /\ output_rows' = Append(output_rows, Row(spotify_url, metadata))
  /\ sleeps' = IF SleepsAfter(DEFAULT_DELAY_MS, index + 1, Len(urls))
               THEN Append(sleeps, index + 1) ELSE sleeps
  /\ index' = index + 1
  /\ spotify_url' = <<>>
  /\ metadata' = BlankMetadata
  /\ track_id' = None
  /\ track_payload' = EmptyTrack
  /\ ai' = 0
  /\ artists' = <<>>
  /\ genres' = <<>>
  /\ structured' = "none"
  /\ reqs' = NoRequests
  /\ UNCHANGED <<procVars, urls, artist_genre_cache, apiVars, now, tok_resp, get_resp,
                 embed_resp, extractVars, threadVars>>

(***************************************************************************)
(* fetch_track_metadata                                                    *)
(***************************************************************************)
\* lines 306-315: blank metadata, the identifier, and the track request
fetch_track_metadata_start ==
  /\ pc = "fetch"
  /\ metadata' = BlankMetadata
  /\ track_id' = track_id_from_url(spotify_url)
  /\ reqs' = NoRequests
  /\ IF HasTrackId(track_id')
     THEN ApiCall("track")
     ELSE pc' = "row" /\ UNCHANGED apiVars
  /\ UNCHANGED <<procVars, runVars, spotify_url, track_payload, ai, artists, genres,
                 structured, artist_genre_cache, now, tok_resp, get_resp, embed_resp,
                 extractVars, threadVars>>

\* line 321 on a payload whose "artists" cannot be iterated: the TypeError is
\* caught by the outer handler and the fallback follows
artists_raise ==
  /\ pc = "artists"
  /\ ~track_payload.artists_ok
  /\ pc' = "embed"
  /\ structured' = "raised"
  /\ UNCHANGED <<procVars, runVars, spotify_url, metadata, track_id, track_payload, ai,
                 artists, genres, artist_genre_cache, apiVars, wireVars, extractVars, threadVars>>

\* lines 321-345: one entry of artists_data
artists_entry ==
  /\ pc = "artists"
  /\ track_payload.artists_ok
  /\ ai <= Len(track_payload.artists)
  /\ LET entry == track_payload.artists[ai]
         artist_name == Strip(OrEmpty(entry.name))
         artist_id == Strip(OrEmpty(entry.id))
     IN  IF ~entry.is_dict
         THEN /\ ai' = ai + 1
              /\ UNCHANGED <<pc, artists, genres, apiVars>>
         ELSE /\ artists' = IF artist_name # <<>> THEN Append(artists, artist_name)
                            ELSE artists
              /\ IF artist_id = <<>>
                 THEN /\ ai' = ai + 1
                      /\ UNCHANGED <<pc, genres, apiVars>>
                 ELSE IF ArtistCached(artist_genre_cache, artist_id)
                 THEN /\ genres' = genres \o artist_genre_cache[artist_id]
                      /\ ai' = ai + 1
                      /\ UNCHANGED <<pc, apiVars>>
                 ELSE /\ ApiCall("artist")
                      /\ UNCHANGED <<ai, genres>>
  /\ UNCHANGED <<procVars, runVars, spotify_url, metadata, track_id, track_payload,
                 structured, artist_genre_cache, wireVars, extractVars, threadVars>>

\* lines 347-373: the metadata is filled in; it is returned when it names a
\* track, an artist or a genre, and the fallback follows otherwise
structured_finish ==
  /\ pc = "artists"
  /\ track_payload.artists_ok
  /\ ai > Len(track_payload.artists)
  /\ metadata' = StructuredMetadata(track_payload, artists, genres)
  /\ structured' = "returned"
  /\ pc' = IF StructuredHit(metadata') THEN "row" ELSE "embed"
  /\ UNCHANGED <<procVars, runVars, spotify_url, track_id, track_payload, ai, artists,
                 genres, artist_genre_cache, apiVars, wireVars, extractVars, threadVars>>

\* fetch_track_artist: the identifier once more, and the embed page request
embed_send ==
  /\ pc = "embed"
  /\ IF ~Truthy(track_id_from_url(spotify_url))
     THEN /\ metadata' = FallbackMerge(metadata, None, None)
          /\ pc' = "row"
          /\ UNCHANGED <<embed_resp, reqs>>
     ELSE /\ \E r \in EmbedResponses : embed_resp' = r
          /\ reqs' = [reqs EXCEPT !.embed = @ + 1]
          /\ pc' = "embed_resp"
          /\ UNCHANGED metadata
  /\ UNCHANGED <<procVars, runVars, spotify_url, track_id, track_payload, ai, artists,
                 genres, structured, artist_genre_cache, apiVars, now, tok_resp,
                 get_resp, extractVars, threadVars>>

\* the embed request failed: raise_for_status or the transport raised, which
\* the handler around the fallback absorbs
embed_fail ==
  /\ pc = "embed_resp"
  /\ embed_resp.status # "200"
  /\ pc' = AfterFallbackError
  /\ metadata' = KeptAfterFallbackError(metadata)
  /\ embed_resp' = NoEmbedResp
  /\ UNCHANGED <<procVars, runVars, spotify_url, track_id, track_payload, ai, artists,
                 genres, structured, artist_genre_cache, apiVars, now, tok_resp,
                 get_resp, reqs, extractVars, threadVars>>

\* the embed page arrived: what was read from it overwrites track_name and artist
embed_merge ==
  /\ pc = "embed_resp"
  /\ embed_resp.status = "200"
  /\ metadata' = FallbackMerge(metadata, embed_resp.track_name, embed_resp.artists)
  /\ pc' = "row"
  /\ embed_resp' = NoEmbedResp
  /\ UNCHANGED <<procVars, runVars, spotify_url, track_id, track_payload, ai, artists,
                 genres, structured, artist_genre_cache, apiVars, now, tok_resp,
                 get_resp, reqs, extractVars, threadVars>>

(***************************************************************************)
(* The token providers and _get_spotify_access_token                       *)
(***************************************************************************)
ProviderError(name, reason) == [provider |-> name, reason |-> reason]

\* time passes; the clock is read by the providers only, so it is advanced
\* where a provider is about to read it
Tick ==
  /\ pc \in {"cc", "wp"}
  /\ \E d \in TickSteps : clock + d <= MaxTicks * d /\ clock' = clock + d
  /\ UNCHANGED <<tokenCache, configured, used, pc, runVars, fetchVars, apiVars,
                 wireVars, extractVars, threadVars>>

\* _get_client_credentials_token without secrets: ValueError, which
\* _get_spotify_access_token records before it turns to the web player
cc_not_configured ==
  /\ pc = "cc"
  /\ SecretsMissing(configured)
  /\ errors' = Append(errors, ProviderError("client_credentials", "not_configured"))
  /\ pc' = "wp"
  /\ UNCHANGED <<procVars, runVars, fetchVars, target, attempt, response, last_error,
                 token, wireVars, extractVars, threadVars>>

\* the cached client-credentials token is returned
cc_cached ==
  /\ pc = "cc"
  /\ ~SecretsMissing(configured)
  /\ CacheValid(tokenCache.client_credentials, ForceRefresh(attempt), clock)
  /\ now' = 0
  /\ token' = tokenCache.client_credentials.token
  /\ pc' = "get"
  /\ errors' = <<>>
  /\ UNCHANGED <<procVars, runVars, fetchVars, target, attempt, response, last_error,
                 tok_resp, get_resp, embed_resp, reqs, extractVars, threadVars>>

\* POST to the accounts token endpoint
cc_request ==
  /\ pc = "cc"
  /\ ~SecretsMissing(configured)
  /\ ~CacheValid(tokenCache.client_credentials, ForceRefresh(attempt), clock)
  /\ now' = clock
  /\ \E r \in ClientCredentialsResponses : tok_resp' = r
  /\ reqs' = [reqs EXCEPT !.accounts = @ + 1]
  /\ pc' = "cc_resp"
  /\ UNCHANGED <<procVars, runVars, fetchVars, apiVars, get_resp, embed_resp,
                 extractVars, threadVars>>

\* the response is a failure or carries no token: the provider raises
cc_fail ==
  /\ pc = "cc_resp"
  /\ tok_resp.status # "ok" \/ TokenMissing(TokenOf(tok_resp))
  /\ errors' = Append(errors, ProviderError("client_credentials", FailureReason(tok_resp)))
  /\ pc' = "wp"
  /\ now' = 0
  /\ tok_resp' = NoTokResp
  /\ UNCHANGED <<procVars, runVars, fetchVars, target, attempt, response, last_error,
                 token, get_resp, embed_resp, reqs, extractVars, threadVars>>

\* the response carries a token: it is cached with its expiry and returned
cc_success ==
  /\ pc = "cc_resp"
  /\ tok_resp.status = "ok"
  /\ ~TokenMissing(TokenOf(tok_resp))
  /\ tokenCache' = [tokenCache EXCEPT !.client_credentials =
                      [token |-> TokenOf(tok_resp),
                       expires_at |-> ClientExpiry(tok_resp, now)]]
  /\ token' = TokenOf(tok_resp)
  /\ pc' = "get"
  /\ errors' = <<>>
  /\ now' = 0
  /\ tok_resp' = NoTokResp
  /\ UNCHANGED <<clock, configured, used, runVars, fetchVars, target, attempt, response,
                 last_error, get_resp, embed_resp, reqs, extractVars, threadVars>>

\* the cached web-player token is returned
wp_cached ==
  /\ pc = "wp"
  /\ CacheValid(tokenCache.web_player, ForceRefresh(attempt), clock)
  /\ now' = 0
  /\ token' = tokenCache.web_player.token
  /\ pc' = "get"
  /\ errors' = <<>>
  /\ UNCHANGED <<procVars, runVars, fetchVars, target, attempt, response, last_error,
                 tok_resp, get_resp, embed_resp, reqs, extractVars, threadVars>>

\* GET of the web-player token endpoint
wp_request ==
  /\ pc = "wp"
  /\ ~CacheValid(tokenCache.web_player, ForceRefresh(attempt), clock)
  /\ now' = clock
  /\ \E r \in WebPlayerResponses(clock) : tok_resp' = r
  /\ reqs' = [reqs EXCEPT !.web_token = @ + 1]
  /\ pc' = "wp_resp"
  /\ UNCHANGED <<procVars, runVars, fetchVars, apiVars, get_resp, embed_resp,
                 extractVars, threadVars>>

\* the second provider failed too: _get_spotify_access_token raises the
\* RuntimeError naming both failures, and _spotify_api_get goes on
wp_fail ==
  /\ pc = "wp_resp"
  /\ tok_resp.status # "ok" \/ TokenMissing(TokenOf(tok_resp))
  /\ TokenFailure(Append(errors, ProviderError("web_player", FailureReason(tok_resp))))
  /\ tok_resp' = NoTokResp
  /\ now' = 0
  /\ UNCHANGED <<procVars, runVars, spotify_url, track_id, get_resp, embed_resp,
                 reqs, extractVars, threadVars>>

wp_success ==
  /\ pc = "wp_resp"
  /\ tok_resp.status = "ok"
  /\ ~TokenMissing(TokenOf(tok_resp))
  /\ tokenCache' = [tokenCache EXCEPT !.web_player =
                      [token |-> TokenOf(tok_resp),
                       expires_at |-> WebExpiry(tok_resp, now)]]
  /\ token' = TokenOf(tok_resp)
  /\ pc' = "get"
  /\ errors' = <<>>
  /\ now' = 0
  /\ tok_resp' = NoTokResp
  /\ UNCHANGED <<clock, configured, used, runVars, fetchVars, target, attempt, response,
                 last_error, get_resp, embed_resp, reqs, extractVars, threadVars>>

(***************************************************************************)
(* _spotify_api_get: the authorised GET                                    *)
(***************************************************************************)
\* session.get(url, headers={"Authorization": f"Bearer {token}", ...})
get_send ==
  /\ pc = "get"
  /\ \E r \in ResourceResponses(token, IF target = "track" THEN TrackPayloads
                                                          ELSE ArtistPayloads) :
       get_resp' = r
  /\ reqs' = IF target = "track" THEN [reqs EXCEPT !.track = @ + 1]
                                 ELSE [reqs EXCEPT !.artist = @ + 1]
  /\ pc' = "get_resp"
  /\ UNCHANGED <<procVars, runVars, fetchVars, apiVars, now, tok_resp, embed_resp,
                 extractVars, threadVars>>

\* 401 on the first attempt: `continue`, the next attempt forces a refresh
get_retry ==
  /\ pc = "get_resp"
  /\ get_resp.status = "401"
  /\ attempt = 0
  /\ Continue("401", last_error)
  /\ get_resp' = NoGetResp
  /\ UNCHANGED <<procVars, runVars, spotify_url, track_id, now, tok_resp, embed_resp,
                 reqs, extractVars, threadVars>>

\* the transport raised, or raise_for_status raises on a non-2xx status
get_raise ==
  /\ pc = "get_resp"
  /\ \/ get_resp.status \in {"transport", "500"}
     \/ get_resp.status = "401" /\ attempt # 0
  /\ ApiRaise
  /\ get_resp' = NoGetResp
  /\ UNCHANGED <<procVars, runVars, spotify_url, track_id, now, tok_resp, embed_resp,
                 reqs, extractVars, threadVars>>

\* 200: the body is returned
get_return ==
  /\ pc = "get_resp"
  /\ get_resp.status = "200"
  /\ ApiReturn(get_resp.body)
  /\ get_resp' = NoGetResp
  /\ UNCHANGED <<procVars, runVars, spotify_url, track_id, now, tok_resp, embed_resp,
                 reqs, extractVars, threadVars>>

(***************************************************************************)
(* The specifications                                                      *)
(***************************************************************************)
Next ==
  \/ \E us \in UrlLists(MaxUrls - used) : fill_rows_call(us)
  \/ fill_rows_return
  \/ fill_rows_blank
  \/ fill_rows_resolve
  \/ fill_rows_append
  \/ fetch_track_metadata_start
  \/ artists_raise
  \/ artists_entry
  \/ structured_finish
  \/ embed_send
  \/ embed_fail
  \/ embed_merge
  \/ Tick
  \/ cc_not_configured
  \/ cc_cached
  \/ cc_request
  \/ cc_fail
  \/ cc_success
  \/ wp_cached
  \/ wp_request
  \/ wp_fail
  \/ wp_success
  \/ get_send
  \/ get_retry
  \/ get_raise
  \/ get_return

Spec == Init /\ [][Next]_vars

\* track_id_from_url applied to one input string
InitExtract ==
  /\ Quiescent
  /\ configured = FALSE
  /\ xin \in Inputs
  /\ xout = None
  /\ xdone = FALSE

ExtractId ==
  /\ ~xdone
  /\ xout' = track_id_from_url(xin)
  /\ xdone' = TRUE
  /\ UNCHANGED <<procVars, pc, runVars, fetchVars, apiVars, wireVars, xin, threadVars>>

NextExtract == ExtractId

SpecExtract == InitExtract /\ [][NextExtract]_vars

\* the duration_ms values under test: a missing or non-integer value, and
\* the integers +-(h hours, m minutes, s seconds, r milliseconds); to
\* isinstance(..., int) a bool is the integer it equals, True being 1
Durations ==
  {NoNumber} \cup
  {[present |-> TRUE, neg |-> n,
    abs |-> h * 3600000 + m * 60000 + s * 1000 + r] :
     n \in BOOLEAN, h \in 0..MaxHours, m \in {0, 9, 10, 59}, s \in {0, 9, 10, 59},
     r \in {0, 1, 999}}

\* _format_duration applied to one duration
InitDuration ==
  /\ Quiescent
  /\ configured = FALSE
  /\ xin \in Durations
  /\ xout = None
  /\ xdone = FALSE

FormatDuration ==
  /\ ~xdone
  /\ xout' = _format_duration(xin)
  /\ xdone' = TRUE
  /\ UNCHANGED <<procVars, pc, runVars, fetchVars, apiVars, wireVars, xin, threadVars>>

NextDuration == FormatDuration

SpecDuration == InitDuration /\ [][NextDuration]_vars

Rock == <<"R","o","c","k">>

\* " Pop", a genre with surrounding whitespace
PaddedPop == <<" ">> \o Pop

\* the values of the lists under test: two spellings of one genre, a padded
\* one, another genre, the empty string and a blank one
GenrePool == {Pop, PopLower, PaddedPop, Rock, <<>>, <<" ">>}

\* the "genres" of a track's artists: a first artist's list of up to MaxList
\* values, alone or followed by a second artist's list of at most one value
GenreLists ==
  LET first == UNION {[1..k -> GenrePool] : k \in 0..MaxList}
      second == UNION {[1..k -> GenrePool] : k \in 0..1}
  IN  {<<f>> : f \in first} \cup {<<f, g>> : f \in first, g \in second}

\* genres.extend(...) over the artists of the track
RECURSIVE ExtendAll(_)
ExtendAll(lists) ==
  IF lists = <<>> THEN <<>> ELSE Head(lists) \o ExtendAll(Tail(lists))

\* _dedupe_strings applied as fetch_track_metadata applies it: to the raw
\* genres of each artist (line 339), and to the genres gathered from all
\* artists when the genre field is written (line 365)
InitDedupe ==
  /\ Quiescent
  /\ configured = FALSE
  /\ xin \in GenreLists
  /\ xout = None
  /\ xdone = FALSE

DedupeGenres ==
  /\ ~xdone
  /\ LET each == [a \in 1..Len(xin) |-> _dedupe_strings(xin[a])]
     IN  xout' = [each |-> each,
                  genre |-> StructuredMetadata(EmptyTrack, <<>>, ExtendAll(each)).genre]
  /\ xdone' = TRUE
  /\ UNCHANGED <<procVars, pc, runVars, fetchVars, apiVars, wireVars, xin, threadVars>>

NextDedupe == DedupeGenres

SpecDedupe == InitDedupe /\ [][NextDedupe]_vars

(***************************************************************************)
(* Threads: fill_from_urls is a plain `def` endpoint, which the server     *)
(* runs on worker threads, so several fill_rows calls share _TOKEN_CACHE.  *)
(* Each thread is followed through one _get_web_player_token call, the     *)
(* provider every run reaches when the secrets are absent.  The module has *)
(* no lock; a thread's cache test is taken as one step, each of its two    *)
(* cache writes as a step of its own.                                      *)
(***************************************************************************)
\* what the web-player endpoint can answer to concurrent requests at time t
ConcurrentResponses(t) ==
  WebPlayerResponses(t) \cup
  {[r EXCEPT !.access_token = TokC] :
     r \in {w \in WebPlayerResponses(t) : w.access_token = TokB}}

\* time passes while a thread is still to read the clock
thread_tick ==
  /\ \E t \in Threads : threads[t].pc = "start"
  /\ \E d \in TickSteps : clock + d <= MaxTicks * d /\ clock' = clock + d
  /\ UNCHANGED <<tokenCache, configured, used, pc, runVars, fetchVars, apiVars,
                 wireVars, extractVars, threadVars>>

\* lines 212-215: the cache holds a valid token, which is returned
thread_wp_cached(t, force_refresh) ==
  /\ threads[t].pc = "start"
  /\ CacheValid(tokenCache.web_player, force_refresh, clock)
  /\ threads' = [threads EXCEPT ![t] =
                   [@ EXCEPT !.pc = "done", !.force_refresh = force_refresh,
                             !.now = clock, !.token = tokenCache.web_player.token]]
  /\ UNCHANGED <<procVars, pc, runVars, fetchVars, apiVars, wireVars, extractVars,
                 issued>>

\* lines 212-221: no valid token, or a forced refresh: the endpoint is requested
thread_wp_request(t, force_refresh) ==
  /\ threads[t].pc = "start"
  /\ ~CacheValid(tokenCache.web_player, force_refresh, clock)
  /\ \E r \in ConcurrentResponses(clock) :
       threads' = [threads EXCEPT ![t] =
                     [@ EXCEPT !.pc = "sent", !.force_refresh = force_refresh,
                               !.now = clock, !.response = r]]
  /\ reqs' = [reqs EXCEPT !.web_token = @ + 1]
  /\ UNCHANGED <<procVars, pc, runVars, fetchVars, apiVars, now, tok_resp, get_resp,
                 embed_resp, extractVars, issued>>

\* lines 222-227: the request failed or the response has no token: raise
thread_wp_fail(t) ==
  /\ threads[t].pc = "sent"
  /\ \/ threads[t].response.status # "ok"
     \/ TokenMissing(TokenOf(threads[t].response))
  /\ threads' = [threads EXCEPT ![t] = [@ EXCEPT !.pc = "done", !.response = NoTokResp]]
  /\ UNCHANGED <<procVars, pc, runVars, fetchVars, apiVars, wireVars, extractVars,
                 issued>>

\* lines 224-233: the token and its expiry are read from the response
thread_wp_parse(t) ==
  /\ threads[t].pc = "sent"
  /\ threads[t].response.status = "ok"
  /\ ~TokenMissing(TokenOf(threads[t].response))
  /\ LET tk == TokenOf(threads[t].response)
         ex == WebExpiry(threads[t].response, threads[t].now)
     IN  /\ threads' = [threads EXCEPT ![t] =
                          [@ EXCEPT !.pc = "write_token", !.token = tk,
                                    !.expires_at = ex, !.response = NoTokResp]]
         /\ issued' = issued \cup {<<tk, ex>>}
  /\ UNCHANGED <<procVars, pc, runVars, fetchVars, apiVars, wireVars, extractVars>>

\* line 235: cache["token"] = token
thread_wp_write_token(t) ==
  /\ threads[t].pc = "write_token"
  /\ tokenCache' = [tokenCache EXCEPT !.web_player.token = threads[t].token]
  /\ threads' = [threads EXCEPT ![t] = [@ EXCEPT !.pc = "write_expiry"]]
  /\ UNCHANGED <<clock, configured, used, pc, runVars, fetchVars, apiVars, wireVars,
                 extractVars, issued>>

\* lines 236-237: cache["expires_at"] = expires_at; return token
thread_wp_write_expiry(t) ==
  /\ threads[t].pc = "write_expiry"
  /\ tokenCache' = [tokenCache EXCEPT !.web_player.expires_at = threads[t].expires_at]
  /\ threads' = [threads EXCEPT ![t] = [@ EXCEPT !.pc = "done"]]
  /\ UNCHANGED <<clock, configured, used, pc, runVars, fetchVars, apiVars, wireVars,
                 extractVars, issued>>

InitConcurrent ==
  /\ Quiescent
  /\ configured = FALSE
  /\ xin = <<>>
  /\ xout = None
  /\ xdone = FALSE

NextConcurrent ==
  \/ thread_tick
  \/ \E t \in Threads, f \in BOOLEAN : thread_wp_cached(t, f)
  \/ \E t \in Threads, f \in BOOLEAN : thread_wp_request(t, f)
  \/ \E t \in Threads : thread_wp_fail(t)
  \/ \E t \in Threads : thread_wp_parse(t)
  \/ \E t \in Threads : thread_wp_write_token(t)
  \/ \E t \in Threads : thread_wp_write_expiry(t)

SpecConcurrent == InitConcurrent /\ [][NextConcurrent]_vars

(***************************************************************************)
(* Claims                                                                  *)
(***************************************************************************)
\* the positions of urls that are not blank, i.e. that are resolved
Resolved == {i \in 1..Len(urls) : Strip(urls[i]) # <<>>}

\* the metadata fields of a row are all empty
RowBlank(row) == \A k \in MetadataKeys : row[k] = <<>>

\* C1: fill_rows returns exactly one row per input entry, in input order: the
\* row at position i carries the trimmed urls[i] as its url, and a blank or
\* whitespace-only entry gives an empty url and empty metadata; fill_rows([])
\* returns [].  This holds whatever the network answers.
C1_RowsMatchInput ==
  /\ Len(output_rows) = index
  /\ index <= Len(urls)
  /\ pc = "idle" => Len(output_rows) = Len(urls)
  /\ \A i \in 1..Len(output_rows) :
       /\ output_rows[i].url = Strip(urls[i])
       /\ Strip(urls[i]) = <<>> => RowBlank(output_rows[i])

\* fill_rows has returned two rows, for a blank entry and a padded track URL
C1_Witness ==
  /\ pc = "idle"
  /\ urls = <<BlankUrl, TrackUrl>>
  /\ Len(output_rows) = 2
  /\ output_rows[1].url = <<>>
  /\ output_rows[2].url = Strip(TrackUrl)
  /\ output_rows[2].track_name = Song

\* C2: fetch_track_metadata never raises to fill_rows: whatever fails, it
\* returns metadata with all eight fields present as strings, the batch is
\* never aborted and every URL yields a row.
C2_NeverRaises ==
  /\ pc # "raised"
  /\ pc = "row" =>
       /\ DOMAIN metadata = MetadataKeys
       /\ \A k \in MetadataKeys : metadata[k] # None
  /\ pc = "idle" => Len(output_rows) = Len(urls)

\* fetch_track_metadata has returned blank metadata after both token
\* providers failed in both attempts and the embed page was requested
C2_Witness ==
  /\ pc = "row"
  /\ structured = "raised"
  /\ reqs.web_token = 2
  /\ reqs.track = 0
  /\ reqs.embed = 1
  /\ metadata = BlankMetadata

\* C3: when no identifier can be extracted from the URL, fetch_track_metadata
\* returns all-blank metadata in one step without any request (token
\* endpoints, track, artist, embed), leaving the token cache and the
\* artist-genre cache unchanged.
C3_NoIdNoNetwork ==
  /\ [](pc = "row" /\ ~Truthy(track_id) => metadata = BlankMetadata /\ reqs = NoRequests)
  /\ [][pc = "fetch" /\ ~Truthy(track_id_from_url(spotify_url)) =>
          /\ pc' = "row"
          /\ metadata' = BlankMetadata
          /\ reqs' = NoRequests
          /\ tokenCache' = tokenCache
          /\ artist_genre_cache' = artist_genre_cache]_vars

\* a URL without identifier has been answered while a token was cached
C3_Witness ==
  /\ pc = "row"
  /\ spotify_url = NoIdUrl
  /\ track_id = None
  /\ tokenCache.web_player.token # <<>>
  /\ metadata = BlankMetadata

\* C4: a structured fetch that succeeds with a track name, an artist or a
\* genre is returned as it is and the embed page is not requested; the embed
\* page is requested only after the structured attempt raised or returned
\* with track name, artists and genres all empty.
C4_NoFallbackOnHit ==
  LET md == StructuredMetadata(track_payload, artists, genres)
      hit == md.track_name # <<>> \/ md.artist # <<>> \/ md.genre # <<>>
  IN  /\ structured = "returned" /\ hit =>
           pc = "row" /\ metadata = md /\ reqs.embed = 0
      /\ pc \in {"embed", "embed_resp"} \/ reqs.embed > 0 =>
           structured = "raised" \/ (structured = "returned" /\ ~hit)

\* the structured fetch was returned for its genre alone, without fallback
C4_Witness ==
  /\ pc = "row"
  /\ structured = "returned"
  /\ metadata.track_name = <<>>
  /\ metadata.artist = <<>>
  /\ metadata.genre = Pop
  /\ reqs.embed = 0

\* the structured attempt returned without track name, artist and genre
StructuredEmpty ==
  /\ structured = "returned"
  /\ LET md == StructuredMetadata(track_payload, artists, genres)
     IN  md.track_name = <<>> /\ md.artist = <<>> /\ md.genre = <<>>

\* C5 as stated: after a structured fetch that returned without track name,
\* artists and genres, the returned metadata has every field other than
\* track_name and artist empty.
C5_OtherFieldsEmpty ==
  pc = "row" /\ StructuredEmpty =>
    /\ reqs.embed = 1
    /\ metadata.genre = <<>>
    /\ metadata.album = <<>>
    /\ metadata.release_date = <<>>
    /\ metadata.duration = <<>>
    /\ metadata.explicit = <<>>
    /\ metadata.popularity = <<>>

\* C5, amended: after a structured fetch that returned without track name,
\* artists and genres, the fallback is invoked exactly once; the returned
\* metadata carries the fallback's track_name and artist (empty when it has
\* none or fails), an empty genre, and album, release_date, duration,
\* explicit and popularity as the structured fetch produced them.
C5_OtherFieldsKept ==
  /\ [](pc = "row" /\ StructuredEmpty =>
          LET md == StructuredMetadata(track_payload, artists, genres)
          IN  /\ reqs.embed = 1
              /\ metadata.genre = <<>>
              /\ metadata.album = md.album
              /\ metadata.release_date = md.release_date
              /\ metadata.duration = md.duration
              /\ metadata.explicit = md.explicit
              /\ metadata.popularity = md.popularity)
  /\ [][pc = "embed_resp" /\ StructuredEmpty =>
          /\ pc' = "row"
          /\ reqs' = reqs
          /\ IF embed_resp.status = "200"
             THEN /\ metadata'.track_name = OrEmpty(embed_resp.track_name)
                  /\ metadata'.artist = OrEmpty(embed_resp.artists)
             ELSE /\ metadata'.track_name = <<>>
                  /\ metadata'.artist = <<>>]_vars

\* the fallback named the track of a payload that carried album data only
C5_Witness ==
  /\ pc = "row"
  /\ StructuredEmpty
  /\ reqs.embed = 1
  /\ metadata.track_name = Tune
  /\ metadata.artist = Act
  /\ metadata.album = Alb
  /\ metadata.duration = <<"0", ":", "5", "9">>

\* the cache entry holds a token that is valid at time t: t < expires_at - 30
Fresh(entry, t) == entry.token # <<>> /\ t + 30 < entry.expires_at

\* the token a token response carries, "" when it carries none
CarriedToken(resp) ==
  IF resp.status = "ok" /\ resp.access_token # None THEN Strip(resp.access_token)
  ELSE <<>>

\* C6: for each provider (client credentials with the secrets configured, web
\* player), once a token is cached with expiry E: a call without force_refresh
\* at a time t < E - 30 sends no request and returns the cached token; a call
\* at t >= E - 30, or with force_refresh, sends exactly one request to that
\* provider's endpoint and, when the response carries a token, replaces the
\* cached token and expiry by those of the response.
C6_TokenCaching ==
  /\ [][pc = "cc" /\ pc' # "cc" /\ configured
          /\ tokenCache.client_credentials.token # <<>> =>
          IF ~ForceRefresh(attempt) /\ Fresh(tokenCache.client_credentials, clock)
          THEN /\ pc' = "get"
               /\ token' = tokenCache.client_credentials.token
               /\ reqs' = reqs
               /\ tokenCache' = tokenCache
          ELSE /\ pc' = "cc_resp"
               /\ reqs' = [reqs EXCEPT !.accounts = @ + 1]
               /\ tokenCache' = tokenCache]_vars
  /\ [][pc = "cc_resp" =>
          /\ pc' # "cc_resp"
          /\ reqs' = reqs
          /\ CarriedToken(tok_resp) # <<>> =>
               /\ pc' = "get"
               /\ token' = CarriedToken(tok_resp)
               /\ tokenCache' =
                    [tokenCache EXCEPT !.client_credentials =
                       [token |-> CarriedToken(tok_resp),
                        expires_at |-> IF tok_resp.expires_in.present
                                       THEN now + tok_resp.expires_in.abs
                                       ELSE now + 300]]]_vars
  /\ [][pc = "wp" /\ pc' # "wp" /\ tokenCache.web_player.token # <<>> =>
          IF ~ForceRefresh(attempt) /\ Fresh(tokenCache.web_player, clock)
          THEN /\ pc' = "get"
               /\ token' = tokenCache.web_player.token
               /\ reqs' = reqs
               /\ tokenCache' = tokenCache
          ELSE /\ pc' = "wp_resp"
               /\ reqs' = [reqs EXCEPT !.web_token = @ + 1]
               /\ tokenCache' = tokenCache]_vars
  /\ [][pc = "wp_resp" =>
          /\ pc' # "wp_resp"
          /\ reqs' = reqs
          /\ CarriedToken(tok_resp) # <<>> =>
               /\ pc' = "get"
               /\ token' = CarriedToken(tok_resp)
               /\ tokenCache' =
                    [tokenCache EXCEPT !.web_player =
                       [token |-> CarriedToken(tok_resp),
                        expires_at |-> IF tok_resp.expiry_ms.present
                                       THEN tok_resp.expiry_ms.abs \div 1000
                                       ELSE now + 300]]]_vars

\* a later URL of the run was served the cached client-credentials token,
\* without a token request, 100 seconds after the run began
C6_Witness ==
  /\ pc = "get"
  /\ configured
  /\ attempt = 0
  /\ clock = 100
  /\ reqs = NoRequests
  /\ token = TokA
  /\ tokenCache.client_credentials = [token |-> TokA, expires_at |-> 300]

\* C7: _get_spotify_access_token tries the client-credentials provider first
\* and the web-player provider only after the former failed in the same
\* call; it returns the first provider's success, never an empty token; when
\* both fail it raises one error that carries both providers' failures.
C7_ProviderOrder ==
  /\ [](pc \in {"cc", "cc_resp"} => errors = <<>>)
  /\ [](pc \in {"wp", "wp_resp"} =>
          Len(errors) = 1 /\ errors[1].provider = "client_credentials")
  /\ [](pc \in {"get", "get_resp"} => token # <<>>)
  /\ [](last_error.raised =>
          /\ Len(last_error.reasons) = 2
          /\ last_error.reasons[1].provider = "client_credentials"
          /\ last_error.reasons[2].provider = "web_player")
  /\ [][(pc \in {"cc", "cc_resp"}) /\ pc' = "get" =>
          /\ token' = tokenCache'.client_credentials.token
          /\ reqs' = reqs]_vars
  /\ [][(pc \in {"wp", "wp_resp"}) /\ pc' = "get" =>
          tokenCache'.web_player.token = token']_vars
  /\ [][pc = "wp_resp" /\ pc' # "get" /\ attempt = 0 =>
          /\ last_error'.raised
          /\ last_error'.reasons[1] = errors[1]
          /\ last_error'.reasons[2].reason =
               (IF tok_resp.status = "ok" THEN "token_missing" ELSE tok_resp.status)]_vars

\* both providers failed in the first attempt: the accounts endpoint could
\* not be reached and the web player answered without a token
C7_Witness ==
  /\ pc = "cc"
  /\ attempt = 1
  /\ last_error.raised
  /\ last_error.reasons[1].reason = "transport"
  /\ last_error.reasons[2].reason = "token_missing"

\* the web-player response at hand carries a token
WebPlayerAnswered == pc = "wp_resp" /\ CarriedToken(tok_resp) # <<>>

\* without secrets no request goes to the accounts endpoint, and the
\* resource is requested with the token the providers returned
C8_Common ==
  /\ [](~configured => reqs.accounts = 0 /\ pc # "cc_resp")
  /\ [][~configured /\ WebPlayerAnswered =>
          pc' = "get" /\ token' = CarriedToken(tok_resp)]_vars
  /\ [][~configured /\ pc = "get" =>
          pc' = "get_resp" /\ get_resp'.auth = token /\ token # <<>>]_vars

\* C8 as stated: without the secrets the client-credentials provider fails
\* without a request, and _get_spotify_access_token still returns a token in
\* every state where the web-player provider succeeds or holds a valid cached
\* token.
C8_WebPlayerAlwaysServes ==
  /\ C8_Common
  /\ [][~configured /\ pc \in {"wp", "wp_resp"} /\ pc' \notin {"wp", "wp_resp"}
          /\ Fresh(tokenCache.web_player, clock) =>
          pc' = "get" /\ token' # <<>>]_vars

\* C8, amended: ... returns a token whenever the web-player endpoint answers
\* with a token or, in a call that does not force a refresh, the web-player
\* provider holds a valid cached token.
C8_WebPlayerServes ==
  /\ C8_Common
  /\ [][~configured /\ pc = "wp" /\ pc' # "wp" /\ ~ForceRefresh(attempt)
          /\ Fresh(tokenCache.web_player, clock) =>
          /\ pc' = "get"
          /\ token' = tokenCache.web_player.token
          /\ reqs' = reqs]_vars

\* without secrets, a track was fetched with the web player's token
C8_Witness ==
  /\ ~configured
  /\ pc = "get_resp"
  /\ get_resp.auth = TokB
  /\ get_resp.status = "200"
  /\ errors = <<>>
  /\ reqs.accounts = 0
  /\ reqs.web_token = 1

\* C9: with a positive delay, fill_rows sleeps between every two consecutive
\* resolutions of non-blank URLs and does not sleep after the last
\* resolution of the run, wherever the blank entries of the input are.
C9_SleepBetweenNotAfter ==
  pc = "idle" =>
    \A i \in Resolved :
      (\E k \in 1..Len(sleeps) : sleeps[k] = i) <=> (\E j \in Resolved : j > i)

\* C10: track_id_from_url returns None or a non-empty string of alphanumeric
\* characters, for every input string.
C10_ExtractionTotal ==
  xdone => \/ xout = None
           \/ xout # <<>> /\ \A i \in 1..Len(xout) : xout[i] \in AlnumChars

\* the canonical URL of an identifier: 'https://open.spotify.com/track/' + id
CanonicalUrl(id) ==
  <<"h","t","t","p","s",":","/","/">> \o HostPart \o TrackPart \o id

\* C11: for every input string from which track_id_from_url returns an
\* identifier, extracting again from the canonical URL built from that
\* identifier returns the same identifier.
C11_RoundTrip ==
  (xdone /\ xout # None) => track_id_from_url(CanonicalUrl(xout)) = xout

\* the number a string of decimal digits denotes
RECURSIVE ValueOf(_)
ValueOf(ds) ==
  IF ds = <<>> THEN 0
  ELSE 10 * ValueOf(SubSeq(ds, 1, Len(ds) - 1))
       + (CHOOSE d \in 0..9 : DigitOf(d) = ds[Len(ds)])

\* a non-empty string of decimal digits
IsDigits(ds) == ds # <<>> /\ \A i \in 1..Len(ds) : ds[i] \in DigitChars

\* a decimal number as str() writes it: no leading zero
IsPlain(ds) == IsDigits(ds) /\ (Len(ds) > 1 => ds[1] # "0")

\* two digits denoting a number below 60
IsSixtieth(ds) == IsDigits(ds) /\ Len(ds) = 2 /\ ValueOf(ds) < 60

\* text renders secs seconds as M:SS below one hour, as H:MM:SS from one hour up
Renders(text, secs) ==
  LET parts == Split(text, ":")
  IN  IF secs < 3600
      THEN /\ Len(parts) = 2
           /\ IsPlain(parts[1]) /\ IsSixtieth(parts[2])
           /\ ValueOf(parts[1]) * 60 + ValueOf(parts[2]) = secs
      ELSE /\ Len(parts) = 3
           /\ IsPlain(parts[1]) /\ IsSixtieth(parts[2]) /\ IsSixtieth(parts[3])
           /\ ValueOf(parts[1]) * 3600 + ValueOf(parts[2]) * 60 + ValueOf(parts[3])
                = secs

\* C12: _format_duration returns the empty string for a missing, non-integer,
\* zero or negative duration; for a positive number of milliseconds it
\* returns the whole seconds, rounded down, as M:SS below one hour and as
\* H:MM:SS with two-digit minutes and seconds from one hour up.
C12_DurationRendered ==
  xdone =>
    IF ~xin.present \/ xin.neg \/ xin.abs = 0
    THEN xout = <<>>
    ELSE Renders(xout, xin.abs \div 1000)

\* 59999 has been rendered as 0:59, or 3600000 as 1:00:00
C12_Witness ==
  /\ xdone
  /\ \/ xin = Num(59999) /\ xout = <<"0",":","5","9">>
     \/ xin = Num(3600000) /\ xout = <<"1",":","0","0",":","0","0">>

\* a string with its letters in lower case
FoldCase(s) == [i \in 1..Len(s) |-> LowerChar(s[i])]

\* the positions of vs holding the first occurrence of a non-empty value,
\* values compared ignoring case
FirstPositions(vs) ==
  {i \in 1..Len(vs) :
     vs[i] # <<>> /\ \A j \in 1..(i - 1) : FoldCase(vs[j]) # FoldCase(vs[i])}

\* the values of vs at the positions ps, from position i on, in their order
RECURSIVE Pick(_, _, _)
Pick(vs, ps, i) ==
  IF i > Len(vs) THEN <<>>
  ELSE (IF i \in ps THEN <<vs[i]>> ELSE <<>>) \o Pick(vs, ps, i + 1)

\* the first occurrences of the distinct non-empty values of vs
FirstOccurrences(vs) == Pick(vs, FirstPositions(vs), 1)

\* vs with every value trimmed of surrounding whitespace
Trimmed(vs) == [i \in 1..Len(vs) |-> Strip(vs[i])]

\* no two values of vs are equal ignoring case
NoTwoEqual(vs) ==
  \A i, j \in 1..Len(vs) : i # j => FoldCase(vs[i]) # FoldCase(vs[j])

\* what holds of _dedupe_strings with or without trimming: no two results are
\* equal ignoring case, a second application changes nothing, and the genre
\* field names each genre of the track's artists once
C13_Common ==
  /\ \A a \in 1..Len(xin) :
       /\ NoTwoEqual(xout.each[a])
       /\ _dedupe_strings(xout.each[a]) = xout.each[a]
  /\ NoTwoEqual(Trimmed(Split(xout.genre, ",")))

\* C13 as stated: the result is, in input order, exactly the first occurrence
\* of each distinct non-empty input value compared ignoring case; no two
\* results are equal ignoring case; applying it twice equals applying it
\* once; a genre shared by several artists appears once in the genre field.
C13_FirstOccurrences ==
  xdone =>
    /\ C13_Common
    /\ \A a \in 1..Len(xin) : xout.each[a] = FirstOccurrences(xin[a])
    /\ xout.genre = JoinComma(FirstOccurrences(ExtendAll(xin)))

\* C13, amended: every value is first trimmed of surrounding whitespace; the
\* result is, in input order, exactly the first occurrence of each distinct
\* trimmed value that is not empty, compared ignoring case; no two results
\* are equal ignoring case; applying it twice equals applying it once; a
\* genre shared by several artists appears once in the genre field.
C13_TrimmedFirstOccurrences ==
  xdone =>
    /\ C13_Common
    /\ \A a \in 1..Len(xin) : xout.each[a] = FirstOccurrences(Trimmed(xin[a]))
    /\ xout.genre = JoinComma(FirstOccurrences(Trimmed(ExtendAll(xin))))

\* ["Pop", "pop", "Rock"] of one artist and ["Pop"] of another have become
\* the genre field "Pop, Rock"
C13_Witness ==
  /\ xdone
  /\ xin = <<(<<Pop, PopLower, Rock>>), (<<Pop>>)>>
  /\ xout.each[1] = <<Pop, Rock>>
  /\ xout.genre = Pop \o <<",", " ">> \o Rock

\* the step ends the running _spotify_api_get call
EndsCall == target # "none" /\ target' = "none"

\* the step ends the running _spotify_api_get call by raising to
\* fetch_track_metadata, which turns to the fallback (track) or caches []
\* for the artist
RaisesToCaller ==
  /\ EndsCall
  /\ IF target = "track"
     THEN structured' = "raised"
     ELSE artist_genre_cache'[CurrentArtistId] = <<>>

\* the step starts the forced token acquisition of the running call
StartsForcedRefresh == target # "none" /\ attempt = 0 /\ attempt' = 1

\* the first GET of the running call has just returned 401
FirstGet401 == pc = "get_resp" /\ get_resp.status = "401" /\ attempt = 0

\* C14: one _spotify_api_get call requests the resource at most twice; if and
\* only if the first GET returns 401, one forced token refresh is performed,
\* bypassing every cached token, followed by one retry GET; a 401 on the
\* retry, or another non-2xx status on either attempt, raises to the
\* caller with no further request.
C14_RetryOn401 ==
  /\ [](reqs.track <= Attempts)
  /\ [][/\ StartsForcedRefresh <=> FirstGet401
        /\ (attempt = 1 /\ pc # "get" /\ pc' = "get") => pc \in {"cc_resp", "wp_resp"}
        /\ (attempt = 1 /\ response = "401" /\ EndsCall) => pc = "get_resp"
        /\ (/\ pc = "get_resp"
            /\ \/ get_resp.status = "500"
               \/ get_resp.status = "401" /\ attempt = 1)
             => RaisesToCaller /\ reqs' = reqs]_vars

\* the step begins the lookup of an artist: _spotify_api_get for /artists/<id>
StartsArtistLookup == target # "artist" /\ target' = "artist"

\* the step ends the lookup of an artist
EndsArtistLookup == target = "artist" /\ target' = "none"

\* the step is the call of fill_rows
StartsRun == pc = "idle" /\ pc' = "loop"

\* the artist loop stands at an entry whose artist id is in the cache
AtCachedArtist ==
  /\ pc = "artists"
  /\ track_payload.artists_ok
  /\ ai <= Len(track_payload.artists)
  /\ track_payload.artists[ai].is_dict
  /\ CurrentArtistId \in DOMAIN artist_genre_cache

\* C15: within one fill_rows run an artist is looked up only while the cache
\* has no entry for its id; the lookup ends with the entry stored (the
\* deduplicated genres, or the empty list when it failed) and the track going
\* on; an entry is never changed or removed during the run and is reused,
\* without a request, wherever the id is listed again; each fill_rows
\* invocation starts from an empty cache.
C15_ArtistLookedUpOnce ==
  [][/\ StartsArtistLookup => CurrentArtistId \notin DOMAIN artist_genre_cache
     /\ EndsArtistLookup =>
          /\ CurrentArtistId \in DOMAIN artist_genre_cache'
          /\ artist_genre_cache'[CurrentArtistId] =
               IF pc = "get_resp" /\ get_resp.status = "200"
               THEN FirstOccurrences(Trimmed(get_resp.body.genres))
               ELSE <<>>
          /\ pc' = "artists" /\ ai' = ai + 1
          /\ structured' = structured /\ artists' = artists
     /\ IF StartsRun
        THEN artist_genre_cache' = EmptyCache
        ELSE \A id \in DOMAIN artist_genre_cache :
               /\ id \in DOMAIN artist_genre_cache'
               /\ artist_genre_cache'[id] = artist_genre_cache[id]
     /\ AtCachedArtist =>
          /\ genres' = genres \o artist_genre_cache[CurrentArtistId]
          /\ target' = "none" /\ reqs' = reqs
          /\ ai' = ai + 1]_vars

\* the second track of a run lists an artist the first track had looked up:
\* the genres are taken from the cache and no artist request has been sent
C15_Witness ==
  /\ index = 1
  /\ pc = "artists"
  /\ ai = 2
  /\ track_payload.artists[1].id = ArtistA
  /\ ArtistA \in DOMAIN artist_genre_cache
  /\ genres = <<Pop>>
  /\ reqs.artist = 0

\* the fields the fallback does not provide are empty
OnlyNamesFilled(md) ==
  /\ md.genre = <<>> /\ md.album = <<>> /\ md.release_date = <<>>
  /\ md.duration = <<>> /\ md.explicit = <<>> /\ md.popularity = <<>>

\* C16: when the structured attempt raised, the fallback is invoked exactly
\* once and the returned genre, album, release_date, duration, explicit and
\* popularity are empty, track_name and artist being the fallback's; when
\* the fallback raises, the metadata is returned as it was before the
\* fallback, which is all-blank after a raised structured attempt.
C16_FallbackAfterRaise ==
  /\ []((pc = "row" /\ structured = "raised") =>
          reqs.embed = 1 /\ OnlyNamesFilled(metadata))
  /\ [][(pc = "embed_resp" /\ pc' = "row") =>
          IF embed_resp.status = "200"
          THEN /\ metadata'.track_name = OrEmpty(embed_resp.track_name)
               /\ metadata'.artist = OrEmpty(embed_resp.artists)
               /\ \A k \in MetadataKeys \ {"track_name", "artist"} :
                    metadata'[k] = metadata[k]
          ELSE /\ metadata' = metadata
               /\ structured = "raised" => metadata' = BlankMetadata]_vars

\* after a raised structured attempt the row carries the fallback's track
\* name and artist and nothing else
C16_Witness ==
  /\ pc = "row"
  /\ structured = "raised"
  /\ reqs.embed = 1
  /\ metadata = [BlankMetadata EXCEPT !.track_name = Tune, !.artist = Act]

\* a provider of the running call is being invoked or awaits its response
InProvider == pc \in {"cc", "cc_resp", "wp", "wp_resp"}

\* the last provider has just failed: no token could be obtained
TokenUnobtainable ==
  /\ pc = "wp_resp"
  /\ tok_resp.status # "ok" \/ TokenMissing(TokenOf(tok_resp))

\* C17: inside _spotify_api_get a second attempt is made only after a 401
\* from the metadata API, so without a 401 each token provider is invoked at
\* most once per call; a failure to obtain a token, and a transport failure
\* of the resource GET, surface directly to fetch_track_metadata.
C17_RetryOnlyAfter401 ==
  /\ []((InProvider /\ attempt = 1) => response = "401")
  /\ [][/\ TokenUnobtainable => RaisesToCaller
        /\ (pc = "get_resp" /\ get_resp.status = "transport") =>
             RaisesToCaller /\ reqs' = reqs]_vars

\* the threads whose refresh of the web-player token is under way: the
\* request has been sent and the cache entry is not yet completely written
Refreshing ==
  {t \in Threads : threads[t].pc \in {"sent", "write_token", "write_expiry"}}

\* C18: when several runs of one process find the token of a provider missing
\* or stale at the same time, only one of them requests the token endpoint,
\* and the cache entry always holds a token together with the expiry of the
\* response that token came from.
C18_RefreshCoalesced ==
  /\ Cardinality(Refreshing) <= 1
  /\ tokenCache.web_player.token # <<>> =>
       <<tokenCache.web_player.token, tokenCache.web_player.expires_at>> \in issued

\* the step is a provider failing: the secrets are missing, or the response
\* is a transport error, a non-2xx status or carries no token
ProviderFails ==
  \/ pc = "cc" /\ ~configured /\ pc' # "cc"
  \/ pc \in {"cc_resp", "wp_resp"} /\ CarriedToken(tok_resp) = <<>>

\* C19: a failed token acquisition, a failed forced refresh included, leaves
\* the token cache as it was; an entry is written only on a response that
\* carried a non-empty token, and only the entry of the provider that
\* received it; a cached token, once set, is never empty.
C19_FailureLeavesCache ==
  [][/\ ProviderFails => tokenCache' = tokenCache
     /\ tokenCache' # tokenCache =>
          /\ pc \in {"cc_resp", "wp_resp"}
          /\ CarriedToken(tok_resp) # <<>>
          /\ IF pc = "cc_resp"
             THEN /\ tokenCache'.web_player = tokenCache.web_player
                  /\ tokenCache'.client_credentials.token = CarriedToken(tok_resp)
             ELSE /\ tokenCache'.client_credentials = tokenCache.client_credentials
                  /\ tokenCache'.web_player.token = CarriedToken(tok_resp)
     /\ \A p \in {"client_credentials", "web_player"} :
          tokenCache[p].token # <<>> => tokenCache'[p].token # <<>>]_vars

\* the first URL of a run was resolved with a web-player token; the second
\* got a 401 with that cached token, the forced refresh failed, and the
\* cache entry is as it was
C19_Witness ==
  /\ index = 1
  /\ output_rows[1].track_name = Song
  /\ pc = "embed"
  /\ structured = "raised"
  /\ ~configured
  /\ clock = 0
  /\ reqs.track = 1
  /\ reqs.web_token = 1
  /\ tokenCache.web_player = [token |-> TokB, expires_at |-> 300]

\* the step is taken by the client-credentials provider of a non-forced
\* _get_spotify_access_token call, the web-player provider's likewise
NonForcedClientStep == attempt = 0 /\ pc = "cc" /\ pc' # "cc"

NonForcedWebStep == attempt = 0 /\ pc = "wp" /\ pc' # "wp"

\* C20 as stated: a non-forced _get_spotify_access_token call sends no
\* token-endpoint request whenever at least one provider holds a cached token
\* that is still valid, so while the web-player token stays valid no token
\* endpoint is requested even if client credentials is configured but failing.
C20_NoRequestWhileAnyValid ==
  [][(/\ NonForcedClientStep \/ NonForcedWebStep
      /\ \/ configured /\ Fresh(tokenCache.client_credentials, clock)
         \/ Fresh(tokenCache.web_player, clock))
       => reqs' = reqs]_vars

\* C20, amended: a non-forced call sends no token-endpoint request when the
\* first provider that can run holds a valid cached token: client credentials
\* when the secrets are configured, the web player when they are absent.
\* When client credentials is configured without a valid cached token, its
\* endpoint is requested once in every call, even while the web player's
\* token is valid; that token is returned, without a request to the
\* web-player endpoint, once the client-credentials request has failed.
C20_NoRequestWhileFirstValid ==
  [][/\ NonForcedClientStep =>
          IF ~configured
          THEN pc' = "wp" /\ reqs' = reqs
          ELSE IF Fresh(tokenCache.client_credentials, clock)
          THEN /\ pc' = "get" /\ reqs' = reqs
               /\ token' = tokenCache.client_credentials.token
          ELSE pc' = "cc_resp" /\ reqs' = [reqs EXCEPT !.accounts = @ + 1]
     /\ (NonForcedWebStep /\ Fresh(tokenCache.web_player, clock)) =>
          /\ pc' = "get" /\ reqs' = reqs
          /\ token' = tokenCache.web_player.token]_vars

\* the accounts endpoint has been requested in a non-forced call although
\* the web player's cached token is valid
C20_Witness ==
  /\ pc = "cc_resp"
  /\ attempt = 0
  /\ configured
  /\ reqs.accounts = 1
  /\ Fresh(tokenCache.web_player, clock)

====
